---- MODULE Spec2Model ----
(***************************************************************************)
(* csvee: a CSV reader that maps tokenized lines onto struct targets by    *)
(* assembling a JSON literal per line (Reader.read) and decoding it with   *)
(* encoding/json.  ReadAll streams the literals from a producer goroutine  *)
(* to the decode loop over an unbuffered channel (stringStreamReader).     *)
(*                                                                         *)
(* Texts are sequences of one-character strings, so that quoting, joining  *)
(* and JSON scanning are computed character by character.                  *)
(***************************************************************************)
EXTENDS Integers, Sequences, FiniteSets, TLC

\* ------------------------------------------------------------------ bounds
\* Most lines an input holds.
MaxLines == 2

\* -------------------------------------------------------------- characters
DQ == "\""
BS == "\\"
SQ == "'"
Digits == {"0", "1", "2", "3", "4", "5", "6", "7", "8", "9"}

Min(a, b) == IF a < b THEN a ELSE b

DigitVal(c) ==
    CASE c = "0" -> 0 [] c = "1" -> 1 [] c = "2" -> 2 [] c = "3" -> 3
      [] c = "4" -> 4 [] c = "5" -> 5 [] c = "6" -> 6 [] c = "7" -> 7
      [] c = "8" -> 8 [] OTHER -> 9

\* strings.Join(parts, sep)
RECURSIVE Join(_, _)
Join(parts, sep) ==
    IF Len(parts) = 0 THEN <<>>
    ELSE IF Len(parts) = 1 THEN parts[1]
    ELSE parts[1] \o sep \o Join(Tail(parts), sep)

\* strings.Split(s, sep) for a one-character separator: always at least one
\* part, so the empty text splits into one empty part.
RECURSIVE SplitFrom(_, _, _)
SplitFrom(s, sep, cur) ==
    IF Len(s) = 0 THEN <<cur>>
    ELSE IF Head(s) = sep THEN <<cur>> \o SplitFrom(Tail(s), sep, <<>>)
    ELSE SplitFrom(Tail(s), sep, Append(cur, Head(s)))

Split(s, sep) == SplitFrom(s, sep, <<>>)

\* strings.ReplaceAll(field, `"`, `\"`) of read
\* The first position from i on of s that holds a character of cs, or one
\* past the end of s when there is none.
IndexAny(s, i, cs) ==
    LET hits == {k \in i..Len(s) : s[k] \in cs}
    IN  IF hits = {} THEN Len(s) + 1
        ELSE CHOOSE k \in hits : \A j \in hits : k <= j

RECURSIVE ReplaceAllQuotes(_)
ReplaceAllQuotes(s) ==
    LET k == IndexAny(s, 1, {DQ})
    IN  IF k > Len(s) THEN s
        ELSE SubSeq(s, 1, k - 1) \o <<BS, DQ>>
             \o ReplaceAllQuotes(SubSeq(s, k + 1, Len(s)))

\* ------------------------------------------------------------------- types
\* A member type after getBaseType: its kind and, for a slice, the kind of
\* its elements.
TInt == [kind |-> "Int", elem |-> "none"]
TString == [kind |-> "String", elem |-> "none"]
TStruct == [kind |-> "Struct", elem |-> "none"]
TSliceOf(k) == [kind |-> "Slice", elem |-> k]

\* Column and member names.
NameI == <<"I">>
NameS == <<"S">>
NameA == <<"A">>
NameN == <<"N">>
NameX == <<"X">>

\* The struct type of the targets: an int, a string, a string slice and a
\* member of an unsupported (nested struct) type.  No member is named X.
StructMembers == {NameI, NameS, NameA, NameN}

MemberType(name) ==
    CASE name = NameI -> TInt
      [] name = NameS -> TString
      [] name = NameA -> TSliceOf("String")
      [] OTHER -> TStruct

\* The zero value reflect.New gives a struct, and a value no decode produces.
ZeroVal == [m \in StructMembers |->
              IF m = NameI THEN 0 ELSE <<>>]
OldVal == [m \in StructMembers |->
              IF m = NameI THEN 7
              ELSE IF m = NameS THEN <<"o">>
              ELSE <<<<"o">>>>]

typeIsValid(k) == k \in {"Int", "String"}

\* getFieldTypeInfo: the base type, the slice element type ("none" when the
\* member is no slice) and whether the type is supported.
getFieldTypeInfo(t) ==
    IF t.kind = "Slice"
    THEN [fieldType |-> t.kind, sliceType |-> t.elem, isValidType |-> typeIsValid(t.elem)]
    ELSE [fieldType |-> t.kind, sliceType |-> "none", isValidType |-> typeIsValid(t.kind)]

\* A getBaseType that strips one level of indirection only.
getBaseTypeOneLevel(t) == [t EXCEPT !.depth = IF t.depth > 0 THEN t.depth - 1 ELSE 0]

\* getBaseType: strips every level of indirection.
getBaseType(t) == [t EXCEPT !.depth = 0]

\* reflect.Type.Kind: a type with levels of indirection left is a pointer.
Kind(t) == IF t.depth > 0 THEN "Ptr" ELSE t.kind

\* --------------------------------------------------------------- tokenizer
\* CSVReader.Read at a cursor: the next line's fields, the line's tokenizer
\* error, or io.EOF.
CSVRead(inp, cur) ==
    IF cur >= Len(inp) THEN [err |-> "EOF", rec |-> <<>>]
    ELSE IF inp[cur + 1].terr THEN [err |-> "TokenizerError", rec |-> <<>>]
    ELSE [err |-> "nil", rec |-> inp[cur + 1].rec]

CSVAdvance(inp, cur) == IF cur >= Len(inp) THEN cur ELSE cur + 1

\* ----------------------------------------------------------- field codec
RECURSIVE QuoteEach(_)
QuoteEach(parts) ==
    IF Len(parts) = 0 THEN <<>>
    ELSE <<<<DQ>> \o parts[1] \o <<DQ>>>> \o QuoteEach(Tail(parts))

\* buildSliceFieldValue for the element kinds of the modelled types
buildSliceFieldValue(elemKind, field) ==
    IF elemKind = "String"
    THEN <<"[">> \o Join(QuoteEach(Split(field, ",")), <<",">>) \o <<"]">>
    ELSE <<"[">> \o field \o <<"]">>

\* The value text of one field of read
fieldValueOf(info, field) ==
    IF info.sliceType # "none" THEN buildSliceFieldValue(info.sliceType, field)
    ELSE IF info.fieldType = "String"
    THEN <<DQ>> \o ReplaceAllQuotes(field) \o <<DQ>>
    ELSE field

\* The loop of read over the fields from position i: labeledFields keeps an
\* empty entry for a column the target has no member for.
RECURSIVE readLoop(_, _, _, _)
readLoop(record, names, i, labeledFields) ==
    IF i > Len(record) THEN [json |-> labeledFields, err |-> "nil"]
    ELSE IF names[i] \notin StructMembers
    THEN readLoop(record, names, i + 1, Append(labeledFields, <<>>))
    ELSE LET info == getFieldTypeInfo(MemberType(names[i]))
         IN  IF ~info.isValidType
             THEN [json |-> <<>>, err |-> "ErrInvalidFieldType"]
             ELSE readLoop(record, names, i + 1,
                     Append(labeledFields,
                        <<DQ>> \o names[i] \o <<DQ, ":">> \o fieldValueOf(info, record[i])))

\* A count check that only rejects records longer than the schema.
countsDifferOnlyLonger(record, names) == Len(record) > Len(names)

\* The check of read that the record has one field per column name.
countsDiffer(record, names) == Len(record) # Len(names)

\* Reader.read on the tokenizer's answer tok for a target of type t: the
\* literal and the error, or a panic (FieldByName of a map type).
read(tok, names, t) ==
    IF tok.err # "nil" THEN [json |-> <<>>, err |-> tok.err]
    ELSE IF countsDiffer(tok.rec, names)
    THEN [json |-> <<>>, err |-> "ErrColumnNamesMismatch"]
    ELSE IF Kind(getBaseType(t)) \notin {"Struct", "Map"}
    THEN [json |-> <<>>, err |-> "ErrUnsupportedTargetType"]
    ELSE IF Kind(getBaseType(t)) = "Map" /\ Len(tok.rec) > 0
    THEN [json |-> <<>>, err |-> "panic"]
    ELSE LET r == readLoop(tok.rec, names, 1, <<>>)
         IN  IF r.err # "nil" THEN r
             ELSE [json |-> <<"{">> \o Join(r.json, <<",">>) \o <<"}">>, err |-> "nil"]

\* ------------------------------------------------------------ encoding/json
\* The scanner and decoder of encoding/json, for the grammar the literals of
\* read use: objects with string keys, strings, integers and arrays.  A scan
\* ends "ok", "err" (a character the grammar does not allow) or "more" (the
\* text ended inside the value).
At(s, i) == IF i >= 1 /\ i <= Len(s) THEN s[i] ELSE ""

ScanStop(s, i) == [st |-> IF i > Len(s) THEN "more" ELSE "err", val |-> <<>>, next |-> 0]

\* A string from the character after its opening quote: \" and \\ are the
\* escapes the alphabet can form; any other escaped character is invalid.
RECURSIVE scanString(_, _, _)
scanString(s, i, acc) ==
    LET k == IndexAny(s, i, {DQ, BS})
        run == acc \o SubSeq(s, i, k - 1)
    IN  IF k > Len(s) THEN ScanStop(s, k)
        ELSE IF s[k] = DQ THEN [st |-> "ok", val |-> run, next |-> k + 1]
        ELSE IF At(s, k + 1) \in {DQ, BS}
        THEN scanString(s, k + 2, Append(run, s[k + 1]))
        ELSE ScanStop(s, k + 1)

RECURSIVE scanDigits(_, _, _)
scanDigits(s, i, acc) ==
    IF At(s, i) \in Digits THEN scanDigits(s, i + 1, Append(acc, s[i]))
    ELSE [st |-> "ok", val |-> acc, next |-> i]

\* An integer: 0, or a nonzero digit followed by digits.
scanNumber(s, i) ==
    IF At(s, i) = "0" THEN [st |-> "ok", val |-> <<"0">>, next |-> i + 1]
    ELSE scanDigits(s, i, <<>>)

RECURSIVE parseValue(_, _)
RECURSIVE parseElements(_, _, _)
RECURSIVE parseMembers(_, _, _)

parseValue(s, i) ==
    LET c == At(s, i)
    IN  IF c = DQ
        THEN LET r == scanString(s, i + 1, <<>>)
             IN  IF r.st = "ok" THEN [r EXCEPT !.val = [t |-> "str", v |-> r.val]] ELSE r
        ELSE IF c \in Digits
        THEN LET r == scanNumber(s, i)
             IN  [r EXCEPT !.val = [t |-> "num", v |-> r.val]]
        ELSE IF c = "["
        THEN IF At(s, i + 1) = "]"
             THEN [st |-> "ok", val |-> [t |-> "arr", v |-> <<>>], next |-> i + 2]
             ELSE parseElements(s, i + 1, <<>>)
        ELSE IF c = "{"
        THEN IF At(s, i + 1) = "}"
             THEN [st |-> "ok", val |-> [t |-> "obj", v |-> <<>>], next |-> i + 2]
             ELSE parseMembers(s, i + 1, <<>>)
        ELSE ScanStop(s, i)

parseElements(s, i, acc) ==
    LET r == parseValue(s, i)
    IN  IF r.st # "ok" THEN r
        ELSE IF At(s, r.next) = ","
        THEN parseElements(s, r.next + 1, Append(acc, r.val))
        ELSE IF At(s, r.next) = "]"
        THEN [st |-> "ok", val |-> [t |-> "arr", v |-> Append(acc, r.val)],
              next |-> r.next + 1]
        ELSE ScanStop(s, r.next)

parseMembers(s, i, acc) ==
    IF At(s, i) # DQ THEN ScanStop(s, i)
    ELSE LET k == scanString(s, i + 1, <<>>)
         IN  IF k.st # "ok" THEN k
             ELSE IF At(s, k.next) # ":" THEN ScanStop(s, k.next)
             ELSE LET r == parseValue(s, k.next + 1)
                      pair == [k |-> k.val, v |-> r.val]
                  IN  IF r.st # "ok" THEN r
                      ELSE IF At(s, r.next) = ","
                      THEN parseMembers(s, r.next + 1, Append(acc, pair))
                      ELSE IF At(s, r.next) = "}"
                      THEN [st |-> "ok", val |-> [t |-> "obj", v |-> Append(acc, pair)],
                            next |-> r.next + 1]
                      ELSE ScanStop(s, r.next)

\* checkValid: the whole text is one JSON value.
checkValid(data) ==
    LET r == parseValue(data, 1)
    IN  r.st = "ok" /\ r.next = Len(data) + 1

RECURSIVE ParseInt(_, _)
ParseInt(ds, acc) ==
    IF Len(ds) = 0 THEN acc ELSE ParseInt(Tail(ds), 10 * acc + DigitVal(Head(ds)))

ZeroOf(kind) == IF kind = "Int" THEN 0 ELSE <<>>

\* One scalar JSON value into a member of the kind: the value, or the zero
\* value and a type error.
decodeScalar(kind, jv) ==
    IF kind = "Int" /\ jv.t = "num" THEN [ok |-> TRUE, v |-> ParseInt(jv.v, 0)]
    ELSE IF kind = "String" /\ jv.t = "str" THEN [ok |-> TRUE, v |-> jv.v]
    ELSE [ok |-> FALSE, v |-> ZeroOf(kind)]

\* One JSON value into a member of type t, whose value was old.
decodeMember(t, jv, old) ==
    IF t.kind = "Slice"
    THEN IF jv.t # "arr" THEN [ok |-> FALSE, v |-> old]
         ELSE [ok |-> \A j \in 1..Len(jv.v) : decodeScalar(t.elem, jv.v[j]).ok,
               v |-> [j \in 1..Len(jv.v) |-> decodeScalar(t.elem, jv.v[j]).v]]
    ELSE LET r == decodeScalar(t.kind, jv)
         IN  IF r.ok THEN r ELSE [ok |-> FALSE, v |-> old]

\* The members of an object into a struct value, in order: a key that names
\* no member is skipped, a type error is kept and decoding goes on.
RECURSIVE decodeObject(_, _, _, _)
decodeObject(pairs, i, val, err) ==
    IF i > Len(pairs) THEN [val |-> val, err |-> err]
    ELSE IF pairs[i].k \notin StructMembers
    THEN decodeObject(pairs, i + 1, val, err)
    ELSE LET r == decodeMember(MemberType(pairs[i].k), pairs[i].v, val[pairs[i].k])
         IN  decodeObject(pairs, i + 1,
                 [val EXCEPT ![pairs[i].k] = r.v],
                 IF r.ok \/ err # "nil" THEN err ELSE "UnmarshalTypeError")

\* json.Unmarshal(data, v) for a target of type t holding val (isnil: the
\* reference is nil): syntax is checked on the whole text before the target
\* is looked at.
Unmarshal(data, t, isnil, val) ==
    IF ~checkValid(data) THEN [val |-> val, err |-> "SyntaxError"]
    ELSE IF t.depth = 0 \/ isnil THEN [val |-> val, err |-> "InvalidUnmarshalError"]
    ELSE IF t.kind # "Struct" THEN [val |-> val, err |-> "UnmarshalTypeError"]
    ELSE LET jv == parseValue(data, 1).val
         IN  IF jv.t # "obj" THEN [val |-> val, err |-> "UnmarshalTypeError"]
             ELSE decodeObject(jv.v, 1, val, "nil")

\* ------------------------------------------------------------------ inputs
\* Field texts: a number, and two texts that are no number (and can be the
\* column names of a header line).
FieldTexts == {<<"1">>, NameI, NameS}
FieldCounts == {1, 2}

Rows == UNION {[1..n -> FieldTexts] : n \in FieldCounts}

\* A line of the input: the fields the tokenizer gives for it, or a line the
\* tokenizer reports an error for.
Lines == {[terr |-> FALSE, rec |-> r] : r \in Rows} \cup {[terr |-> TRUE, rec |-> <<>>]}

Inputs == UNION {[1..n -> Lines] : n \in 0..MaxLines}

\* ReaderOptions.ColumnNames
Schemas == {<<NameI, NameS>>, <<NameI, NameX>>, <<NameN>>}

Options == [ReadHeaders : BOOLEAN, ColumnNames : Schemas]

\* The targets of Read: the untyped nil, or a type (kind and levels of
\* indirection) and whether the reference is nil.
ReadTargets ==
    { [kind |-> "Nil", depth |-> 0, isnil |-> TRUE],
      [kind |-> "Struct", depth |-> 1, isnil |-> FALSE],
      [kind |-> "Struct", depth |-> 1, isnil |-> TRUE],
      [kind |-> "Struct", depth |-> 0, isnil |-> FALSE],
      [kind |-> "Struct", depth |-> 2, isnil |-> FALSE],
      [kind |-> "Int", depth |-> 1, isnil |-> FALSE],
      [kind |-> "Map", depth |-> 0, isnil |-> FALSE] }

\* The arguments of ReadAll: ref is "none" for the untyped nil, "value" for
\* a non-pointer and "ptr" for a pointer; to is what the pointer points to,
\* elem the element kind of the slice and elemPtr whether the elements are
\* pointers.
ReadAllArgs ==
    { [ref |-> "none", isnil |-> TRUE, to |-> "none", elem |-> "none", elemPtr |-> FALSE],
      [ref |-> "value", isnil |-> FALSE, to |-> "Slice", elem |-> "Struct", elemPtr |-> FALSE],
      [ref |-> "ptr", isnil |-> TRUE, to |-> "Slice", elem |-> "Struct", elemPtr |-> FALSE],
      [ref |-> "ptr", isnil |-> TRUE, to |-> "Struct", elem |-> "none", elemPtr |-> FALSE],
      [ref |-> "ptr", isnil |-> FALSE, to |-> "Struct", elem |-> "none", elemPtr |-> FALSE],
      [ref |-> "ptr", isnil |-> FALSE, to |-> "Slice", elem |-> "Struct", elemPtr |-> FALSE],
      [ref |-> "ptr", isnil |-> FALSE, to |-> "Slice", elem |-> "Struct", elemPtr |-> TRUE],
      [ref |-> "ptr", isnil |-> FALSE, to |-> "Slice", elem |-> "Int", elemPtr |-> FALSE],
      [ref |-> "ptr", isnil |-> FALSE, to |-> "Slice", elem |-> "Map", elemPtr |-> FALSE] }

NoArg == [ref |-> "unset", isnil |-> FALSE, to |-> "none", elem |-> "none", elemPtr |-> FALSE]

\* ------------------------------------------------------------------- state
VARIABLES
    input,            \* the lines of the source
    opts,             \* the ReaderOptions given to NewReader
    phase,            \* "new", "ready", "ctorErr", "readall", "returned", "panic"
    cursor,           \* lines the tokenizer has consumed
    ColumnNames,      \* Reader.ColumnNames
    call,             \* the last Read call: target, value before and after, result
    arg,              \* the argument of ReadAll
    out,              \* the caller's slice: the records appended, each with its line
    streamParseError, \* ReadAll's streamParseError
    closed,           \* the stream channel is closed
    pcM,              \* the decode loop's position
    pcP,              \* the producer goroutine's position
    pend,             \* what the producer is handing to Stream
    buf,              \* the decoder's buffer: unread text, and the line it began with
    seen,             \* streamParseError as the decode loop last read it
    raRet,            \* what ReadAll returned ("none" before)
    g                 \* history: Stream calls, receipts, handoffs, closes

vars == <<input, opts, phase, cursor, ColumnNames, call, arg, out,
          streamParseError, closed, pcM, pcP, pend, buf, seen, raRet, g>>

readerVars == <<cursor, ColumnNames>>
readVars == <<call>>
streamVars == <<arg, out, streamParseError, closed, pcM, pcP, pend, buf, seen, raRet, g>>

NoCall == [target |-> [kind |-> "Nil", depth |-> 0, isnil |-> TRUE],
           before |-> OldVal, after |-> OldVal, ret |-> "none", cursor0 |-> 0]

NoPend == [s |-> <<>>, line |-> 0]
NoBuf == [s |-> <<>>, line |-> 0, cap |-> 0]

Init ==
    /\ input \in Inputs
    /\ opts \in Options
    /\ phase = "new"
    /\ cursor = 0
    /\ ColumnNames = <<>>
    /\ call = NoCall
    /\ arg = NoArg
    /\ out = <<>>
    /\ streamParseError = "nil"
    /\ closed = FALSE
    /\ pcM = "idle"
    /\ pcP = "idle"
    /\ pend = NoPend
    /\ buf = NoBuf
    /\ seen = "nil"
    /\ raRet = "none"
    /\ g = [nStream |-> 0, nRecv |-> 0, handoffs |-> <<>>, nClose |-> 0,
            eof |-> FALSE, why |-> "none", dropped |-> 0]

\* ------------------------------------------------------------ construction
\* One column name of determineReaderColumnNames from header field c.  The
\* index is out of range (a panic) for c[0] on an empty field and for
\* c[lastIndex] when nothing is left after the leading quote.
HeaderNamePanics(c) ==
    \/ Len(c) = 0
    \/ Len(c) = 1 /\ c[1] \in {DQ, SQ}

HeaderName(c) ==
    LET colName == IF c[1] \in {DQ, SQ} THEN Tail(c) ELSE c
        lastIndex == Len(colName)
    IN  IF c[lastIndex] = DQ \/ colName[lastIndex] = SQ
        THEN SubSeq(colName, 1, lastIndex - 1)
        ELSE colName

\* A construction in which the supplied ColumnNames win over the header.
determineReaderColumnNamesSupplied(columnNames, readheaders, inp) ==
    [names |-> columnNames, err |-> "nil",
     cur |-> IF readheaders THEN CSVAdvance(inp, 0) ELSE 0]

\* determineReaderColumnNames: the schema, the error and the lines consumed.
determineReaderColumnNames(columnNames, readheaders, inp) ==
    IF ~readheaders
    THEN [names |-> columnNames, err |-> "nil", cur |-> 0]
    ELSE LET tok == CSVRead(inp, 0)
             cur == CSVAdvance(inp, 0)
         IN  IF tok.err # "nil"
             THEN [names |-> <<>>, err |-> "HeaderError", cur |-> cur]
             ELSE IF \E i \in 1..Len(tok.rec) : HeaderNamePanics(tok.rec[i])
             THEN [names |-> <<>>, err |-> "panic", cur |-> cur]
             ELSE [names |-> [i \in 1..Len(tok.rec) |-> HeaderName(tok.rec[i])],
                   err |-> "nil", cur |-> cur]

NewReader ==
    /\ phase = "new"
    /\ LET d == determineReaderColumnNames(opts.ColumnNames, opts.ReadHeaders, input)
       IN  /\ cursor' = d.cur
           /\ ColumnNames' = d.names
           /\ phase' = IF d.err = "nil" THEN "ready"
                       ELSE IF d.err = "panic" THEN "panic" ELSE "ctorErr"
    /\ UNCHANGED <<input, opts>>
    /\ UNCHANGED readVars
    /\ UNCHANGED streamVars

\* -------------------------------------------------------------------- Read
\* Reader.Read(v): the nil check, read, then json.Unmarshal into v.
ReadResult(tg, inp, cur, names) ==
    IF tg.kind = "Nil"
    THEN [ret |-> "ErrReadTargetNil", after |-> OldVal, cur |-> cur]
    ELSE LET r == read(CSVRead(inp, cur), names, [kind |-> tg.kind, depth |-> tg.depth])
             u == Unmarshal(r.json, [kind |-> tg.kind, depth |-> tg.depth], tg.isnil, OldVal)
         IN  IF r.err # "nil"
             THEN [ret |-> r.err, after |-> OldVal, cur |-> CSVAdvance(inp, cur)]
             ELSE [ret |-> u.err, after |-> u.val, cur |-> CSVAdvance(inp, cur)]

Read ==
    /\ phase = "ready"
    /\ \E tg \in ReadTargets :
         LET res == ReadResult(tg, input, cursor, ColumnNames)
         IN  /\ call' = [target |-> tg, before |-> OldVal,
                         after |-> res.after, ret |-> res.ret, cursor0 |-> cursor]
             /\ cursor' = res.cur
             /\ phase' = IF res.ret = "panic" THEN "panic" ELSE phase
    /\ UNCHANGED <<input, opts, ColumnNames>>
    /\ UNCHANGED streamVars

\* ----------------------------------------------------------------- ReadAll
\* The size of the buffer the decoder hands to stringStreamReader.Read.
minRead == 512

\* The entry checks of ReadAll on its argument.
readAllEntry(a) ==
    IF a.ref # "ptr" THEN "ErrReadAllNotSlicePointer"
    ELSE IF a.isnil THEN "ErrReadTargetNil"
    ELSE IF a.to # "Slice" THEN "ErrReadAllNotSlicePointer"
    ELSE "nil"

\* reflect.New(base).Interface(): a pointer to the element's base type.
BaseTarget == [kind |-> arg.elem, depth |-> 1]

\* ReadAll up to the start of the producer goroutine: a failed check returns
\* at once; otherwise the stream is made and both tasks start.
ReadAllEntry ==
    /\ phase = "ready"
    /\ call = NoCall
    /\ \E a \in ReadAllArgs :
         /\ arg' = a
         /\ IF readAllEntry(a) # "nil"
            THEN /\ raRet' = readAllEntry(a)
                 /\ phase' = "returned"
                 /\ UNCHANGED <<pcM, pcP>>
            ELSE /\ raRet' = raRet
                 /\ phase' = "readall"
                 /\ pcM' = "more"
                 /\ pcP' = "read"
    /\ UNCHANGED <<input, opts, out, streamParseError, closed, pend, buf, seen, g>>
    /\ UNCHANGED readerVars
    /\ UNCHANGED readVars

\* Where the producer is after calling Stream(nextJSON): blocked in the send
\* until the decode loop receives.
PcAfterStreamNoWait == "read"
PcAfterStream == "send"

\* One turn of the producer's loop: r.read, then break (end of input or an
\* error, which is kept in streamParseError) or Stream(nextJSON).  Leaving
\* the loop runs the deferred Stream("").
P_Read ==
    /\ phase \in {"readall", "returned"}
    /\ pcP = "read"
    /\ LET r == read(CSVRead(input, cursor), ColumnNames, BaseTarget)
       IN  /\ cursor' = CSVAdvance(input, cursor)
           /\ IF r.err = "panic"
              THEN /\ pcP' = "dsend"
                   /\ pend' = NoPend
                   /\ g' = [g EXCEPT !.why = "FieldByName"]
                   /\ UNCHANGED streamParseError
              ELSE IF r.json = <<>> /\ r.err = "EOF"
              THEN /\ pcP' = "dsend"
                   /\ pend' = NoPend
                   /\ g' = [g EXCEPT !.eof = (phase = "readall")]
                   /\ UNCHANGED streamParseError
              ELSE IF r.err # "nil"
              THEN /\ pcP' = "dsend"
                   /\ pend' = NoPend
                   /\ streamParseError' = r.err
                   /\ UNCHANGED g
              ELSE /\ pcP' = PcAfterStream
                   /\ pend' = [s |-> r.json, line |-> cursor + 1]
                   /\ g' = [g EXCEPT !.nStream = @ + 1]
                   /\ UNCHANGED streamParseError
    /\ UNCHANGED <<input, opts, phase, ColumnNames, arg, out, closed, pcM, buf, seen, raRet>>
    /\ UNCHANGED readVars

\* stringStreamReader.Read(p) on the received string: what it puts in p.
Delivered(s, plen) == SubSeq(s, 1, Min(Len(s), plen))

\* The decoder's refill before it calls Read: the buffer, holding b.s, is
\* grown to twice its capacity plus minRead when fewer than minRead bytes
\* are free; p is the free part.
refillCap(b) == IF b.cap - Len(b.s) < minRead THEN 2 * b.cap + minRead ELSE b.cap
refillFree(b) == refillCap(b) - Len(b.s)

\* dec.More() on a buffer that holds text: another value follows unless the
\* next character closes an array or an object.
MoreOn(text) == text[1] \notin {"]", "}"}

\* The handoff on the unbuffered channel: the producer's send (Stream) meets
\* the decode loop's receive (stringStreamReader.Read, called by dec.More on
\* an empty buffer or by dec.Decode inside a value).  The empty string is
\* io.EOF to the decoder.
Handoff ==
    /\ phase = "readall"
    /\ ~closed
    /\ pcP \in {"send", "dsend"}
    /\ pcM \in {"more", "refill"}
    /\ pcP' = IF pcP = "send" THEN "read"
              ELSE IF g.why = "FieldByName" THEN "dying" ELSE "done"
    /\ pend' = NoPend
    /\ g' = [g EXCEPT !.handoffs = Append(@, pend.line),
                      !.nRecv = IF pend.s = <<>> THEN @ ELSE @ + 1,
                      !.dropped = @ + Len(pend.s)
                                    - Len(Delivered(pend.s, refillFree(buf)))]
    /\ IF pend.s = <<>>
       THEN /\ buf' = [buf EXCEPT !.cap = refillCap(buf)]
            /\ IF pcM = "more"
               THEN /\ pcM' = "return"
                    /\ seen' = streamParseError
                    /\ raRet' = raRet
               ELSE /\ pcM' = "close"
                    /\ seen' = seen
                    /\ raRet' = "ErrUnexpectedEOF"
       ELSE /\ buf' = [s |-> buf.s \o Delivered(pend.s, refillFree(buf)),
                       line |-> IF buf.s = <<>> THEN pend.line ELSE buf.line,
                       cap |-> refillCap(buf)]
            /\ pcM' = IF pcM = "refill" THEN "decode"
                      ELSE IF MoreOn(Delivered(pend.s, refillFree(buf))) THEN "check"
                      ELSE "return"
            /\ UNCHANGED <<seen, raRet>>
    /\ UNCHANGED <<input, opts, phase, arg, out, streamParseError, closed>>
    /\ UNCHANGED readerVars
    /\ UNCHANGED readVars

\* The loop body's test of streamParseError.  The producer writes it with no
\* synchronisation, so the read gives the written value or the old nil.
M_Check ==
    /\ phase = "readall"
    /\ pcM = "check"
    /\ \E e \in {"nil", streamParseError} :
         /\ seen' = e
         /\ pcM' = IF e # "nil" THEN "return" ELSE "decode"
    /\ UNCHANGED <<input, opts, phase, arg, out, streamParseError, closed, pcP, pend, buf,
                   raRet, g>>
    /\ UNCHANGED readerVars
    /\ UNCHANGED readVars

\* reflect.Append(direct, rv)
AppendRecordFront(direct, rec) == <<rec>> \o direct
AppendRecord(direct, rec) == Append(direct, rec)

\* dec.Decode into a new instance of the base type, then the append.  A
\* value that is not complete in the buffer makes the decoder read again; an
\* error returns from ReadAll.  After the append dec.More is answered from
\* the buffer when text is left in it.
M_Decode ==
    /\ phase = "readall"
    /\ pcM = "decode"
    /\ LET r == parseValue(buf.s, 1)
           text == SubSeq(buf.s, 1, r.next - 1)
           rest == SubSeq(buf.s, r.next, Len(buf.s))
           u == Unmarshal(text, BaseTarget, FALSE, ZeroVal)
       IN  IF r.st = "more"
           THEN /\ pcM' = "refill"
                /\ UNCHANGED <<buf, out, raRet>>
           ELSE IF r.st = "err"
           THEN /\ pcM' = "close"
                /\ raRet' = "SyntaxError"
                /\ UNCHANGED <<buf, out>>
           ELSE IF u.err # "nil"
           THEN /\ pcM' = "close"
                /\ raRet' = u.err
                /\ buf' = [buf EXCEPT !.s = rest]
                /\ UNCHANGED out
           ELSE /\ out' = AppendRecord(out, [val |-> u.val, line |-> buf.line])
                /\ buf' = [buf EXCEPT !.s = rest,
                                       !.line = IF rest = <<>> THEN 0 ELSE @]
                /\ pcM' = IF rest = <<>> THEN "more"
                          ELSE IF MoreOn(rest) THEN "check" ELSE "return"
                /\ raRet' = raRet
    /\ UNCHANGED <<input, opts, phase, arg, streamParseError, closed, pcP, pend, seen, g>>
    /\ UNCHANGED readerVars
    /\ UNCHANGED readVars

\* return streamParseError: the value the decode loop saw, or the one written
\* since (equal once the sentinel was received).
M_Return ==
    /\ phase = "readall"
    /\ pcM = "return"
    /\ \E e \in {seen, streamParseError} : raRet' = e
    /\ pcM' = "close"
    /\ UNCHANGED <<input, opts, phase, arg, out, streamParseError, closed, pcP, pend, buf,
                   seen, g>>
    /\ UNCHANGED readerVars
    /\ UNCHANGED readVars

\* The deferred stream.Close() of ReadAll, on every return after the entry
\* checks.
M_Close ==
    /\ phase = "readall"
    /\ pcM = "close"
    /\ closed' = TRUE
    /\ g' = [g EXCEPT !.nClose = @ + 1]
    /\ pcM' = "done"
    /\ phase' = "returned"
    /\ UNCHANGED <<input, opts, arg, out, streamParseError, pcP, pend, buf, seen, raRet>>
    /\ UNCHANGED readerVars
    /\ UNCHANGED readVars

\* A send on the closed channel (or a send blocked when it is closed) panics
\* in the producer goroutine.
P_SendClosed ==
    /\ phase = "returned"
    /\ closed
    /\ pcP \in {"send", "dsend"}
    /\ pcP' = "panic"
    /\ phase' = "panic"
    /\ g' = [g EXCEPT !.why = "send on closed channel"]
    /\ UNCHANGED <<input, opts, arg, out, streamParseError, closed, pcM, pend, buf, seen, raRet>>
    /\ UNCHANGED readerVars
    /\ UNCHANGED readVars

\* The producer goroutine ends in the panic of r.read once its deferred
\* Stream("") has returned.
P_Die ==
    /\ phase \in {"readall", "returned"}
    /\ pcP = "dying"
    /\ pcP' = "panic"
    /\ phase' = "panic"
    /\ UNCHANGED <<input, opts, arg, out, streamParseError, closed, pcM, pend, buf, seen,
                   raRet, g>>
    /\ UNCHANGED readerVars
    /\ UNCHANGED readVars

\* A Reader is constructed, then either read line by line or handed to
\* ReadAll.
Next ==
    \/ NewReader
    \/ Read
    \/ ReadAllEntry
    \/ P_Read
    \/ Handoff
    \/ M_Check
    \/ M_Decode
    \/ M_Return
    \/ M_Close
    \/ P_SendClosed
    \/ P_Die

Spec == Init /\ [][Next]_vars

\* ------------------------------------------- construction and Read on texts
\* Fields as the tokenizer hands them over that exercise the text handling
\* of construction and of read: empty, quote characters at either end or
\* inside, a backslash, a comma inside a (quoted) field.
CodecTexts ==
    { <<>>, <<SQ>>, <<DQ>>, <<"1">>, NameI,
      <<SQ, "I", SQ>>, <<DQ, "I", DQ>>, <<DQ, "I", DQ, "S">>,
      <<BS>>, <<"o", DQ, "o">>, <<"a", ",", "b">> }

\* Most fields a line of these texts holds.
MaxCodecFields == 2

\* The tokenizer skips a blank line, so no record is a single empty field.
CodecRows ==
    UNION {[1..n -> CodecTexts] : n \in 1..MaxCodecFields} \ {<<<<>>>>}

CodecInputs == {<<[terr |-> FALSE, rec |-> r]>> : r \in CodecRows}

CodecSchemas == {<<NameS>>, <<NameI, NameA>>}

CodecOptions == [ReadHeaders : BOOLEAN, ColumnNames : CodecSchemas]

InitCodec ==
    /\ input \in CodecInputs
    /\ opts \in CodecOptions
    /\ phase = "new"
    /\ cursor = 0
    /\ ColumnNames = <<>>
    /\ call = NoCall
    /\ arg = NoArg
    /\ out = <<>>
    /\ streamParseError = "nil"
    /\ closed = FALSE
    /\ pcM = "idle"
    /\ pcP = "idle"
    /\ pend = NoPend
    /\ buf = NoBuf
    /\ seen = "nil"
    /\ raRet = "none"
    /\ g = [nStream |-> 0, nRecv |-> 0, handoffs |-> <<>>, nClose |-> 0,
            eof |-> FALSE, why |-> "none", dropped |-> 0]

NextCodec ==
    \/ NewReader
    \/ Read

SpecCodec == InitCodec /\ [][NextCodec]_vars

\* --------------------------------------------------- ReadAll on long lines
\* A field long enough for its literal to exceed the minRead bytes the
\* decoder offers on its first read, and a short one.
LongText == [i \in 1..minRead |-> "a"]
ShortText == <<"o">>

LongLines == {[terr |-> FALSE, rec |-> <<t>>] : t \in {LongText, ShortText}}

LongInputs == UNION {[1..n -> LongLines] : n \in 0..MaxLines}

LongOptions == [ReadHeaders : {FALSE}, ColumnNames : {<<NameS>>}]

InitLong ==
    /\ input \in LongInputs
    /\ opts \in LongOptions
    /\ phase = "new"
    /\ cursor = 0
    /\ ColumnNames = <<>>
    /\ call = NoCall
    /\ arg = NoArg
    /\ out = <<>>
    /\ streamParseError = "nil"
    /\ closed = FALSE
    /\ pcM = "idle"
    /\ pcP = "idle"
    /\ pend = NoPend
    /\ buf = NoBuf
    /\ seen = "nil"
    /\ raRet = "none"
    /\ g = [nStream |-> 0, nRecv |-> 0, handoffs |-> <<>>, nClose |-> 0,
            eof |-> FALSE, why |-> "none", dropped |-> 0]

SpecLong == InitLong /\ [][Next]_vars

\* -------------------------------------------------------------- properties
\* Lines construction consumed: the header line in header mode.
StartCursor == IF opts.ReadHeaders THEN 1 ELSE 0

\* What r.read gives for line i of the input under the Reader's schema when
\* ReadAll's producer reads it, and what decoding that literal gives.
Assembled(i) == read(CSVRead(input, i - 1), ColumnNames, BaseTarget)
Decoded(i) == Unmarshal(Assembled(i).json, BaseTarget, FALSE, ZeroVal)
WellFormedLine(i) == Assembled(i).err = "nil" /\ Decoded(i).err = "nil"

ReadAllRan == arg.ref = "ptr" /\ readAllEntry(arg) = "nil"
ReadAllReturned == ReadAllRan /\ pcM = "done"

OutVals == [i \in 1..Len(out) |-> out[i].val]
OutLines == [i \in 1..Len(out) |-> out[i].line]
ExpectedVals(a, b) == [i \in 1..(b - a + 1) |-> Decoded(a + i - 1).val]

\* C1: when ReadAll has returned and line k is the first line whose assembly
\* fails (the lines before it assemble and decode), the output holds exactly
\* the records of the lines before k, in order, and the error returned is
\* the assembly error of line k.
C1_PartialOutputThenError ==
    \A k \in 1..Len(input) :
        ( /\ ReadAllReturned
          /\ k > StartCursor
          /\ \A j \in (StartCursor + 1)..(k - 1) : WellFormedLine(j)
          /\ Assembled(k).err \notin {"nil", "panic"} )
        => /\ raRet = Assembled(k).err
           /\ OutVals = ExpectedVals(StartCursor + 1, k - 1)

\* C2: the channel is closed only after the producer has left its loop and
\* completed its final handoff, once, on every return of ReadAll past the
\* entry checks; the producer never sends on the closed channel.
C2_CloseAfterProducer ==
    /\ closed => \/ pcP \in {"done", "dying"}
                 \/ pcP = "panic" /\ g.why = "FieldByName"
    /\ g.nClose <= 1
    /\ ReadAllReturned => g.nClose = 1
    /\ g.why # "send on closed channel"

C4_OneInFlight ==
    /\ g.nStream - g.nRecv \in {0, 1}
    /\ g.nStream - g.nRecv = 1 => pcP \in {"send", "panic"}

C4_Witness ==
    /\ g.nStream = 2
    /\ g.nRecv = 1
    /\ pcP = "send"
    /\ pcM = "more"

\* The sentinel's place among the handoffs (line 0 stands for it).
SentinelCount == Cardinality({i \in 1..Len(g.handoffs) : g.handoffs[i] = 0})
SentinelLast == Len(g.handoffs) > 0 /\ g.handoffs[Len(g.handoffs)] = 0

\* C5: when the tokenizer has reported end of input to the producer during
\* ReadAll, then once ReadAll has returned the sentinel has been handed
\* across exactly once, as the last handoff, and ReadAll has returned nil.
C5_SentinelAtEndOfInput ==
    (g.eof /\ ReadAllReturned)
    => /\ SentinelCount = 1
       /\ SentinelLast
       /\ raRet = "nil"

\* The last Read call, and the line it read (if it read one).
ReadCalled == call.ret # "none"
ReadTokenized == ReadCalled /\ call.target.kind # "Nil"
ReadGotLine ==
    /\ ReadTokenized
    /\ call.cursor0 < Len(input)
    /\ ~input[call.cursor0 + 1].terr
LineRead == input[call.cursor0 + 1].rec
StructRef(tg) == tg.kind = "Struct" /\ tg.depth >= 1 /\ ~tg.isnil

\* C6: a Read call whose line has a field count different from the schema
\* length returns ErrColumnNamesMismatch and leaves the target as it was,
\* whatever the target's type.
C6_MismatchLeavesTarget ==
    (ReadGotLine /\ Len(LineRead) # Len(ColumnNames))
    => /\ call.ret = "ErrColumnNamesMismatch"
       /\ call.after = call.before

C6_Witness ==
    /\ ReadGotLine
    /\ Len(LineRead) < Len(ColumnNames)
    /\ ColumnNames[1] = NameI
    /\ LineRead[1] = <<"1">>
    /\ StructRef(call.target)
    /\ call.ret = "ErrColumnNamesMismatch"

\* The columns of a schema that name a member of the target, and a line
\* and a schema cut down to those columns.
PresentIdx(names) ==
    SelectSeq([i \in 1..Len(names) |-> i], LAMBDA i : names[i] \in StructMembers)
Restrict(sq, idx) == [j \in 1..Len(idx) |-> sq[idx[j]]]
ReadPresentOnly(tg) ==
    LET idx == PresentIdx(ColumnNames)
        t == [kind |-> tg.kind, depth |-> tg.depth]
        r == read([err |-> "nil", rec |-> Restrict(LineRead, idx)],
                  Restrict(ColumnNames, idx), t)
        u == Unmarshal(r.json, t, tg.isnil, call.before)
    IN  IF r.err # "nil" THEN [ret |-> r.err, after |-> call.before]
        ELSE [ret |-> u.err, after |-> u.val]

\* C7: a Read call into a struct whose line has one field per column, where
\* some column names no member of the struct and the named columns decode,
\* returns no error, populating the named members and leaving the others.
C7_AbsentColumnsSkipped ==
    ( /\ ReadGotLine
      /\ StructRef(call.target)
      /\ Len(LineRead) = Len(ColumnNames)
      /\ \E i \in 1..Len(ColumnNames) : ColumnNames[i] \notin StructMembers
      /\ ReadPresentOnly(call.target).ret = "nil" )
    => /\ call.ret = "nil"
       /\ call.after = ReadPresentOnly(call.target).after

\* The argument of ReadAll is an absent reference (the untyped nil or a nil
\* pointer), or is present but not a pointer to a slice.
ArgAbsent(a) == a.ref = "none" \/ (a.ref = "ptr" /\ a.isnil)
ArgNotSliceRef(a) == ~ArgAbsent(a) /\ (a.ref # "ptr" \/ a.to # "Slice")
ReturnedAtEntry ==
    /\ cursor = StartCursor
    /\ pcP = "idle"
    /\ g.nStream = 0
    /\ out = <<>>

\* C8: ReadAll returns ErrReadTargetNil for an absent reference and
\* ErrReadAllNotSlicePointer for an argument that is not a pointer to a
\* slice, in both cases with no line consumed, no producer started and
\* nothing appended.
C8_EntryChecks ==
    (raRet # "none" /\ arg # NoArg)
    => /\ ArgAbsent(arg) => raRet = "ErrReadTargetNil" /\ ReturnedAtEntry
       /\ ArgNotSliceRef(arg) => raRet = "ErrReadAllNotSlicePointer" /\ ReturnedAtEntry

\* C9: Read on a nil target, the untyped nil or a nil pointer to a struct,
\* returns ErrReadTargetNil and consumes no line.
C9_NilTargetAtEntry ==
    (ReadCalled /\ (call.target.kind = "Nil" \/ call.target.isnil))
    => /\ call.ret = "ErrReadTargetNil"
       /\ cursor = call.cursor0

\* Construction has succeeded.
Constructed ==
    /\ phase \notin {"new", "ctorErr"}
    /\ determineReaderColumnNames(opts.ColumnNames, opts.ReadHeaders, input).err = "nil"
QuoteFree(c) == \A j \in 1..Len(c) : c[j] \notin {DQ, SQ}
StructPtr == [kind |-> "Struct", depth |-> 1]

\* C10: in header mode a successful construction has consumed the first
\* line and taken the schema from it, whatever ColumnNames the options
\* hold; the first Read, and the first record of ReadAll, decode the second
\* line under that schema, and no output record comes from the header.
C10_HeaderMode ==
    (Constructed /\ opts.ReadHeaders)
    => /\ Len(input) >= 1 /\ ~input[1].terr
       /\ Len(ColumnNames) = Len(input[1].rec)
       /\ \A i \in 1..Len(ColumnNames) :
            QuoteFree(input[1].rec[i]) => ColumnNames[i] = input[1].rec[i]
       /\ (~ReadCalled /\ arg = NoArg) => cursor = 1
       /\ ReadTokenized => call.cursor0 >= 1
       /\ (ReadGotLine /\ call.cursor0 = 1 /\ StructRef(call.target)
             /\ call.target.depth = 1)
          => LET r == read([err |-> "nil", rec |-> input[2].rec], input[1].rec, StructPtr)
                 u == Unmarshal(r.json, StructPtr, FALSE, call.before)
             IN  /\ call.ret = IF r.err # "nil" THEN r.err ELSE u.err
                 /\ call.after = IF r.err # "nil" THEN call.before ELSE u.val
       /\ \A i \in 1..Len(out) : out[i].line >= 2
       /\ Len(out) >= 1
          => /\ out[1].line = 2
             /\ out[1].val = Unmarshal(read([err |-> "nil", rec |-> input[2].rec],
                                            input[1].rec, StructPtr).json,
                                       StructPtr, FALSE, ZeroVal).val

C10_Witness ==
    /\ Constructed
    /\ opts.ReadHeaders
    /\ opts.ColumnNames # ColumnNames
    /\ ReadGotLine
    /\ call.cursor0 = 1
    /\ StructRef(call.target)
    /\ call.ret = "nil"
    /\ call.after # call.before

\* The last Read call read a line with one field per column name.
ReadMatchedLine == ReadGotLine /\ Len(LineRead) = Len(ColumnNames)

\* C14 (as the code has it): the record-kind check of read fails with
\* ErrUnsupportedTargetType exactly when the target's type, with every
\* level of indirection stripped, is neither a struct nor a map; a struct
\* behind two levels of indirection passes the check.
C14_KindCheckStripsAllLevels ==
    ReadMatchedLine
    => (call.ret = "ErrUnsupportedTargetType"
          <=> call.target.kind \notin {"Struct", "Map"})

C14_Witness ==
    /\ ReadMatchedLine
    /\ call.target.kind = "Struct"
    /\ call.target.depth = 2
    /\ call.ret = "nil"
    /\ call.after # call.before

\* C14 (as stated): the record-kind check fails exactly when the target is
\* not a struct or map reached directly or through exactly one level of
\* indirection, so a struct behind two levels is rejected.
C14_KindCheckOneLevel ==
    ReadMatchedLine
    => (call.ret = "ErrUnsupportedTargetType"
          <=> ~(call.target.kind \in {"Struct", "Map"} /\ call.target.depth <= 1))

\* C17: Read into a map target, on a line with one field per column of a
\* non-empty schema, ends without a panic, returning nil or an error.
C17_MapTargetLookupDefined ==
    (ReadMatchedLine /\ call.target.kind = "Map" /\ Len(ColumnNames) > 0)
    => /\ call.ret # "panic"
       /\ phase # "panic"

\* No task of ReadAll can take a further step.
ReadAllAtRest == ~ENABLED Next

\* C15: a ReadAll that has passed its entry checks comes to rest only with
\* the decode loop returned and the producer finished after its sentinel
\* handoff: neither task has panicked, and neither is left blocked on the
\* channel.  (Every step consumes a line, a literal or a position of one of
\* the tasks, so every run comes to rest.)
C15_BothTasksFinish ==
    /\ ReadAllRan => phase # "panic"
    /\ (ReadAllRan /\ ReadAllAtRest)
       => (pcM = "done" /\ pcP = "done" /\ phase = "returned")

\* One leading and one trailing quote character removed.
TrimLead(c) == IF Len(c) > 0 /\ c[1] \in {DQ, SQ} THEN Tail(c) ELSE c
TrimTrail(c) ==
    IF Len(c) > 0 /\ c[Len(c)] \in {DQ, SQ} THEN SubSeq(c, 1, Len(c) - 1) ELSE c
TrimQuotes(c) == TrimTrail(TrimLead(c))

\* Construction ended in a panic.
CtorPanicked == phase = "panic" /\ call = NoCall /\ arg = NoArg

\* C11: in header mode, once construction has run on a header line, every
\* column name is its header field with one leading and one trailing quote
\* character removed if present, and nothing else removed; this for every
\* field, the empty field and the single quote character included.
C11_HeaderQuotesTrimmed ==
    (opts.ReadHeaders /\ phase # "new" /\ Len(input) >= 1 /\ ~input[1].terr)
    => /\ ~CtorPanicked
       /\ ColumnNames = [i \in 1..Len(input[1].rec) |-> TrimQuotes(input[1].rec[i])]

\* The elements of a raw sequence field: none for the empty field.
ElementsOf(field) == IF field = <<>> THEN <<>> ELSE Split(field, ",")
PlainText(field) == \A j \in 1..Len(field) : field[j] \notin {DQ, BS}

\* C12: Read of a line `1,<field>` under the schema [I, A] into a struct
\* decodes the string-sequence member A to the comma-separated elements of
\* the field, in order, and to the empty sequence for the empty field.
C12_SequenceField ==
    ( /\ ReadMatchedLine
      /\ StructRef(call.target)
      /\ ColumnNames = <<NameI, NameA>>
      /\ LineRead[1] = <<"1">>
      /\ PlainText(LineRead[2]) )
    => /\ call.ret = "nil"
       /\ call.after[NameA] = ElementsOf(LineRead[2])

\* C13: Read of a one-field line under the schema [S] into a struct decodes
\* the string member S to exactly the text of the field.
C13_StringRoundTrip ==
    ( /\ ReadMatchedLine
      /\ StructRef(call.target)
      /\ ColumnNames = <<NameS>> )
    => /\ call.ret = "nil"
       /\ call.after[NameS] = LineRead[1]

\* C16: every literal handed across is delivered whole, whatever its length
\* (no byte of it is dropped), and every record appended is the record Read
\* gives for the line its literal came from.
C16_LiteralDeliveredWhole ==
    /\ g.dropped = 0
    /\ \A i \in 1..Len(out) : out[i].val = Decoded(out[i].line).val
    /\ (ReadAllReturned /\ raRet = "nil") => Len(out) = g.nRecv

====
